---- MODULE Spec2Model ----
(***************************************************************************)
(* Booking lifecycle and slot availability of the clinic backend           *)
(* (src/models/Booking.js, src/routes/bookings.js).                        *)
(*                                                                         *)
(* Time is counted in ticks from 00:00 UTC of day 0; TicksPerMinute ticks  *)
(* make a minute, so that a Date difference need not be a whole number of  *)
(* minutes.  Calendar dates are day numbers ("YYYY-MM-DD" is day d) and    *)
(* strings the code takes apart ("HH:MM") are tuples of characters.        *)
(* Each route handler is one action: requests are served one at a time.    *)
(***************************************************************************)
EXTENDS Integers, Sequences, FiniteSets, TLC

VARIABLES bookings, nextId, now, tz, writes,
          loaded, stock, orders, placing, adminOTPs

vars == <<bookings, nextId, now, tz, writes, loaded, stock, orders, placing, adminOTPs>>

\* the documents requests hold between their read and their write
inFlight == <<loaded>>

\* the medicines, the medicine orders and the placements under way
pharmacy == <<stock, orders, placing>>

\* the state of the booking routes
clinic == <<bookings, nextId, tz, writes>>

----------------------------------------------------------------------------
(* Bounds of the model *)

MaxBookings == 2

\* the requests that change the collection, over a run of the model; reads
\* and refused requests are not counted
MaxWrites == 3

TicksPerMinute == 2

----------------------------------------------------------------------------
(* Constants of the program *)

CheckInEarlyMinutes == 15

CheckInLateMinutes == 60

CheckoutWaitMinutes == 20

NoShowCutoffMinutes == 30

\* expiresAt: Date.now() + 5 * 60 * 1000
OTPLifetimeMinutes == 5

\* storedOTPData.attempts >= 3
MaxAttempts == 3

FirstSlotHour == 10

LastSlotHour == 19

KolkataOffsetMinutes == 330

MinutesPerDay == 24 * 60

----------------------------------------------------------------------------
(* Dates *)

Minutes(n) == n * TicksPerMinute

DayTicks == Minutes(MinutesPerDay)

\* Number.NaN, the time value of an Invalid Date
NaN == 0 - 1

\* new Date(year, month - 1, day, hour, minute): a wall-clock reading of the
\* server's zone, off minutes east of UTC
LocalDateTime(day, hour, minute, off) ==
    Minutes(day * MinutesPerDay + hour * 60 + minute - off)

\* new Date("YYYY-MM-DD"): a date-only ISO string is midnight UTC
ParseDateOnly(day) == Minutes(day * MinutesPerDay)

\* date.toISOString().split('T')[0]
ISODateOf(t) == t \div DayTicks

\* the server-local calendar day of an instant (toDateString, getDate)
LocalDateOf(t, off) == (t + Minutes(off)) \div DayTicks

\* date.setHours(0, 0, 0, 0)
StartOfLocalDay(t, off) == LocalDateOf(t, off) * DayTicks - Minutes(off)

\* date.getHours()
LocalHourOf(t, off) == ((t + Minutes(off)) % DayTicks) \div Minutes(60)

\* new Date(new Date().toLocaleString("en-US", { timeZone: "Asia/Kolkata" })):
\* the Kolkata wall clock, read back as a wall clock of the server's zone
CurrentISTTime(t, off) == t + Minutes(KolkataOffsetMinutes - off)

----------------------------------------------------------------------------
(* "HH:MM" strings *)

Digits == <<"0", "1", "2", "3", "4", "5", "6", "7", "8", "9">>

DigitValue(c) == (CHOOSE i \in 1..10 : Digits[i] = c) - 1

\* Number(s) of a string of one or two digits
RECURSIVE ToNumber(_)
ToNumber(s) ==
    IF Len(s) = 0 THEN 0
    ELSE 10 * ToNumber(SubSeq(s, 1, Len(s) - 1)) + DigitValue(s[Len(s)])

ColonAt(s) == CHOOSE i \in 1..Len(s) : s[i] = ":"

\* timePart.split(':').map(Number)
HourOf(s) == ToNumber(SubSeq(s, 1, ColonAt(s) - 1))

MinuteOf(s) == ToNumber(SubSeq(s, ColonAt(s) + 1, Len(s)))

\* hour.toString().padStart(2, '0') + ":00"
SlotString(hour) ==
    IF hour < 10 THEN <<"0", Digits[hour + 1], ":", "0", "0">>
    ELSE <<Digits[(hour \div 10) + 1], Digits[(hour % 10) + 1], ":", "0", "0">>

\* the time slots of a day, in order
TimeSlots == [i \in 1..(LastSlotHour - FirstSlotHour + 1) |-> SlotString(FirstSlotHour + i - 1)]

\* new Date(`${isoDate}T${time}`): the ISO form needs a two-digit hour and a
\* two-digit minute; anything else is an Invalid Date.  A date-time string
\* without an offset is a wall clock of the server's zone.
ParseISODateTime(day, time, off) ==
    IF /\ ColonAt(time) = 3
       /\ Len(time) = 5
       /\ HourOf(time) <= 24
       /\ MinuteOf(time) <= 59
    THEN LocalDateTime(day, HourOf(time), MinuteOf(time), off)
    ELSE NaN

----------------------------------------------------------------------------
(* Requests the model sends *)

Users == {"u1", "u2"}

Locations == {"Jubilee Hills", "Kokapet", "Kondapur"}

\* the status enum of the booking schema
Statuses == {"confirmed", "in-progress", "completed", "cancelled", "rescheduled", "no-show"}

\* the zone the server runs in, in minutes east of UTC: the clinic's zone
ServerOffsets == {KolkataOffsetMinutes}

T1000 == <<"1", "0", ":", "0", "0">>

T1100 == <<"1", "1", ":", "0", "0">>

T0300 == <<"0", "3", ":", "0", "0">>

T900 == <<"9", ":", "0", "0">>

T0330 == <<"0", "3", ":", "3", "0">>

\* the treatment catalog, read-only here
Treatments ==
    [t \in {"t1", "t2"} |->
        IF t = "t1"
        THEN [isActive |-> TRUE, availableLocations |-> {"Jubilee Hills", "Kokapet"}]
        ELSE [isActive |-> FALSE, availableLocations |-> Locations]]

CreateRequest(u, t, l, d, h) ==
    [user |-> u, treatmentId |-> t, location |-> l, appointmentDate |-> d, appointmentTime |-> h]

\* the stockQuantity of every medicine when the model starts
InitialStock == 2

\* the medicine orders a run places
MaxOrders == 2

\* the stockQuantity up to which the model follows cancellations
MaxStock == 4

\* the minutes of the admin sign-in the model follows
OTPHorizonMinutes == 6

\* the day the model starts on, and the day after
Today == 2

Tomorrow == Today + 1

CreateRequests ==
    { CreateRequest("u1", "t1", "Jubilee Hills", Tomorrow, T1000),
      CreateRequest("u1", "t1", "Kokapet", Tomorrow, T900),
      CreateRequest("u1", "t1", "Jubilee Hills", Today, T0300),
      CreateRequest("u1", "t1", "Jubilee Hills", Today, T0330),
      CreateRequest("u1", "t1", "Kondapur", Tomorrow, T1000),
      CreateRequest("u1", "t2", "Jubilee Hills", Tomorrow, T1000),
      CreateRequest("u1", "t3", "Jubilee Hills", Tomorrow, T1000) }

\* Math.floor(1000 + Math.random() * 9000)
ReferenceNumbers == {1000, 1001}

\* Math.floor(100000 + Math.random() * 900000).toString()
IssuedOTPs == {"482913"}

\* the OTPs a checkout request carries: the issued one and another
SuppliedOTPs == IssuedOTPs \cup {"000000"}

NoOTP == "undefined"

\* body('status').isIn([...]) of PATCH /:id/status
OwnerStatusInputs == {"pending", "confirmed", "in-progress", "completed", "cancelled", "rescheduled"}

\* body('status').isIn([...]) of PATCH /admin/:id/status
AdminStatusInputs == Statuses

\* a missing cancellationReason, and one of 5 to 500 characters
Reasons == {"", "changed plans"}

\* a day that has passed, and tomorrow
RescheduleDates == {Today - 1, Tomorrow}

AdminIds == {"admin1"}

\* the ratings of rating requests: one below the validator's range, and one in it
RatingInputs == {0, 5}

\* a comment of at most 500 characters
RatingComments == {"on time"}

\* a feedback of 10 to 1000 characters
Feedbacks == {"very good care"}

\* the dates of availability queries: a day that has passed, today and tomorrow
QueryDates == {Today - 1, Today, Tomorrow}

\* body('action').isIn([...]) of PATCH /admin/bulk-update
BulkActions == {"cancel", "confirm", "reschedule", "no-show"}

NoTime == 0 - 1

NoReschedule == [date |-> NoTime, time |-> <<>>]

\* the instants the clock of the model visits, as offsets in ticks from 10:00
\* (server time) of tomorrow
ClockOffsets ==
    { 0 - Minutes(16), 0 - Minutes(15),
      Minutes(5) - 1, Minutes(5),
      Minutes(30),
      Minutes(60), Minutes(60) + 1 }

\* the model starts at 03:30 (server time) of today
StartOfModel(off) == LocalDateTime(Today, 3, 30, off)

ClockInstants(off) ==
    {StartOfModel(off)} \cup { LocalDateTime(Tomorrow, 10, 0, off) + d : d \in ClockOffsets }

----------------------------------------------------------------------------
(* State *)

BookingIds == 1..MaxBookings

\* the requests that can be under way at the same time
Requests == {"r1", "r2"}

\* a request slot with no request under way
Idle == [kind |-> "none"]

\* the medicines of the catalogue: one on sale and one withdrawn
Medicines ==
    [ m1 |-> [isActive |-> TRUE, inStock |-> TRUE],
      m2 |-> [isActive |-> FALSE, inStock |-> TRUE] ]

RescheduleTimes == {T1100}

\* the data of a bulk request: none, and a new date and time
BulkData ==
    { [cancellationReason |-> "", appointmentDate |-> 0, appointmentTime |-> <<>>],
      [cancellationReason |-> "", appointmentDate |-> Tomorrow, appointmentTime |-> T1100] }

BulkIdLists == { <<i>> : i \in BookingIds } \cup { <<i, j>> : i, j \in BookingIds }

\* the ids of the stored bookings
Stored == DOMAIN bookings

Init ==
    /\ bookings = <<>>
    /\ nextId = 1
    /\ tz \in ServerOffsets
    /\ now = StartOfModel(tz)
    /\ writes = 0
    /\ loaded = [r \in Requests |-> Idle]
    /\ stock = [m \in DOMAIN Medicines |-> InitialStock]
    /\ orders = <<>>
    /\ placing = [r \in Requests |-> Idle]
    /\ adminOTPs = <<>>

\* a request is served while the run has writes left
Serving == writes < MaxWrites

\* a request that changes the collection counts as a write
Counted == writes' = IF bookings' # bookings THEN writes + 1 ELSE writes

\* time passes
Advance ==
    /\ \E t \in ClockInstants(tz) : t > now /\ now' = t
    /\ UNCHANGED <<clinic, inFlight, pharmacy, adminOTPs>>

----------------------------------------------------------------------------
(* The e-mail of a request that was served: try { await send...(booking) }  *)
(* catch (emailError) { console.error(...) }, after the save and before the *)
(* answer.  delivered tells whether the dispatch went through.              *)

\* a dispatch whose failure reaches the handler's outer catch
EmailFailureSurfaces(out, delivered) ==
    [answer |-> IF out.code \in {200, 201} /\ ~delivered
                THEN [out EXCEPT !.code = 500, !.message = "Failed"]
                ELSE out,
     emailError |-> out.code \in {200, 201} /\ ~delivered]

\* the answer the handler goes on to give, and whether the catch logged an error
Emailed(out, delivered) ==
    [answer |-> out, emailError |-> out.code \in {200, 201} /\ ~delivered]

\* what can become of the e-mail: a request that was refused sends none
EmailOutcomes(out) == IF out.code \in {200, 201} THEN BOOLEAN ELSE {FALSE}

----------------------------------------------------------------------------
(* POST /bookings *)

NewBooking(req, appointmentDateTime, reference) ==
    [ user |-> req.user,
      treatment |-> req.treatmentId,
      location |-> req.location,
      appointmentDate |-> appointmentDateTime,
      appointmentTime |-> req.appointmentTime,
      status |-> "confirmed",
      bookingReference |-> reference,
      cancellationReason |-> "",
      cancelledAt |-> NoTime,
      rescheduledFrom |-> NoReschedule,
      rescheduleCount |-> 0,
      noShowMarkedAt |-> NoTime,
      checkedIn |-> FALSE,
      checkInTime |-> NoTime,
      checkoutOTP |-> NoOTP,
      checkedOut |-> FALSE,
      checkOutTime |-> NoTime,
      adminCheckout |-> "",
      checkOutEligibleTime |-> NoTime,
      rating |-> 0,
      ratingComment |-> "",
      feedback |-> "",
      feedbackDate |-> NoTime ]

\* the pre-save hook of a new document: ZEN + YYYYMMDD of the server's date + 4 digits
BookingReference(t, off, n) == <<LocalDateOf(t, off), n>>

\* new Date(year, month - 1, day, hour, minute) of the requested date and time
AppointmentDateTime(req, off) ==
    LocalDateTime(req.appointmentDate, HourOf(req.appointmentTime),
                  MinuteOf(req.appointmentTime), off)

\* a collection without the unique index
ReferenceNeverTaken(bs, reference) == FALSE

\* bookingReference: { unique: true }: the index holds the key already
ReferenceTaken(bs, reference) == \E i \in DOMAIN bs : bs[i].bookingReference = reference

\* the comparison that lets the present instant through
BeforeNow(appointmentDateTime, currentISTTime) == appointmentDateTime < currentISTTime

\* appointmentDateTime <= currentISTTime
NotInFuture(appointmentDateTime, currentISTTime) == appointmentDateTime <= currentISTTime

\* the handler on the collection bs; id is the _id of the new document and n
\* the random number of its reference
Create(bs, id, req, n, t, off) ==
    LET appointmentDateTime == AppointmentDateTime(req, off)
        reference == BookingReference(t, off, n)
        answer(code, message, after) == [code |-> code, message |-> message, bookings |-> after]
    IN
    IF req.treatmentId \notin DOMAIN Treatments \/ ~Treatments[req.treatmentId].isActive
    THEN answer(404, "Treatment not found or not available", bs)
    ELSE IF req.location \notin Treatments[req.treatmentId].availableLocations
    THEN answer(400, "Treatment is not available at the selected location", bs)
    ELSE IF NotInFuture(appointmentDateTime, CurrentISTTime(t, off))
    THEN answer(400, "Appointment date and time must be in the future", bs)
    ELSE IF ReferenceTaken(bs, reference)
    THEN \* the insert fails with a duplicate key error, and save() throws
         answer(500, "Failed to create booking", bs)
    ELSE answer(201, "Booking created successfully",
                (id :> NewBooking(req, appointmentDateTime, reference)) @@ bs)

CreateBooking(req, n) ==
    /\ Serving
    /\ nextId <= MaxBookings
    /\ LET out == Create(bookings, nextId, req, n, now, tz)
       IN \E delivered \in EmailOutcomes(out) :
             bookings' = Emailed(out, delivered).answer.bookings
    /\ nextId' = IF bookings' # bookings THEN nextId + 1 ELSE nextId
    /\ UNCHANGED <<now, tz>>
    /\ Counted
    /\ UNCHANGED <<inFlight, pharmacy, adminOTPs>>

----------------------------------------------------------------------------
(* Handlers of one stored booking.  Each reads the booking b it loaded and  *)
(* answers with a status code, a message and the booking as it saved it    *)
(* (b itself when it saved nothing).                                       *)

Outcome(code, message, b) == [code |-> code, message |-> message, data |-> 0, booking |-> b]

\* bookingSchema.methods.cancelBooking
cancelBooking(b, reason, t) ==
    [b EXCEPT !.status = "cancelled", !.cancellationReason = reason, !.cancelledAt = t]

\* the limit off by one: a second reschedule passes
RescheduleLimitOffByOne(b) == b.rescheduleCount > 1

\* bookingSchema.methods.rescheduleBooking; it throws when the booking was
\* rescheduled before, and the caller's catch answers 500
RescheduleLimitReached(b) == b.rescheduleCount >= 1

rescheduleBooking(b, newDate, newTime, t) ==
    [b EXCEPT !.rescheduledFrom = [date |-> b.appointmentDate, time |-> b.appointmentTime],
              !.appointmentDate = ParseDateOnly(newDate),
              !.appointmentTime = newTime,
              !.status = "rescheduled",
              !.rescheduleCount = b.rescheduleCount + 1]

\* bookingSchema.methods.completeBooking
completeBooking(b) == [b EXCEPT !.status = "completed"]

\* bookingSchema.methods.markAsNoShow
markAsNoShow(b, t) == [b EXCEPT !.status = "no-show", !.noShowMarkedAt = t]

\* PATCH /bookings/:id/status
UpdateStatus(b, caller, status, reason, t) ==
    IF b.user # caller THEN Outcome(403, "Access denied", b)
    ELSE IF status = "cancelled"
    THEN IF reason = ""
         THEN Outcome(400, "Cancellation reason is required", b)
         ELSE Outcome(200, "Booking cancelled successfully", cancelBooking(b, reason, t))
    ELSE IF status \notin Statuses
    THEN \* save() fails the schema's enum validation
         Outcome(500, "Failed to update booking status", b)
    ELSE Outcome(200, "Booking updated successfully", [b EXCEPT !.status = status])

\* a handler that saves the new schedule before it looks at the limit
RescheduleSavesBeforeLimit(b, caller, newDate, newTime, t) ==
    IF b.user # caller THEN Outcome(403, "Access denied", b)
    ELSE IF ParseDateOnly(newDate) < t
    THEN Outcome(400, "New appointment date must be in the future", b)
    ELSE IF b.status \in {"completed", "cancelled"}
    THEN Outcome(400, "Cannot reschedule completed or cancelled bookings", b)
    ELSE IF RescheduleLimitReached(b)
    THEN Outcome(400, "Appointment can only be rescheduled once",
                 [b EXCEPT !.rescheduledFrom = [date |-> b.appointmentDate, time |-> b.appointmentTime],
                           !.appointmentDate = ParseDateOnly(newDate),
                           !.appointmentTime = newTime])
    ELSE Outcome(200, "Booking rescheduled successfully", rescheduleBooking(b, newDate, newTime, t))

\* PATCH /bookings/:id/reschedule
Reschedule(b, caller, newDate, newTime, t) ==
    IF b.user # caller THEN Outcome(403, "Access denied", b)
    ELSE IF ParseDateOnly(newDate) < t
    THEN Outcome(400, "New appointment date must be in the future", b)
    ELSE IF b.status \in {"completed", "cancelled"}
    THEN Outcome(400, "Cannot reschedule completed or cancelled bookings", b)
    ELSE IF RescheduleLimitReached(b)
    THEN Outcome(400, "Appointment can only be rescheduled once", b)
    ELSE Outcome(200, "Booking rescheduled successfully", rescheduleBooking(b, newDate, newTime, t))

\* a handler that looks at the status before it looks at the owner
CancelChecksStatusFirst(b, caller) ==
    IF b.status \notin {"pending", "confirmed"}
    THEN Outcome(400, "This booking cannot be cancelled", b)
    ELSE IF b.user # caller THEN Outcome(403, "Access denied", b)
    ELSE Outcome(200, "Booking cancelled successfully", [b EXCEPT !.status = "cancelled"])

\* PUT /bookings/:id/cancel
Cancel(b, caller) ==
    IF b.user # caller THEN Outcome(403, "Access denied", b)
    ELSE IF b.status \notin {"pending", "confirmed"}
    THEN Outcome(400, "This booking cannot be cancelled", b)
    ELSE Outcome(200, "Booking cancelled successfully", [b EXCEPT !.status = "cancelled"])

\* body('rating').isInt({ min: 1, max: 5 })
ValidRating(rating) == rating \in 1..5

\* a test that also passes a booking that is being served
CompletedOrInProgress(b) == b.status \in {"completed", "in-progress"}

\* booking.status !== 'completed', negated
Completed(b) == b.status = "completed"

\* bookingSchema.methods.addFeedback
addFeedback(b, rating, feedback, t) ==
    [b EXCEPT !.rating = rating, !.feedback = feedback, !.feedbackDate = t]

\* PATCH /bookings/:id/feedback, as far as the booking goes: the handler then
\* adds the review to the treatment's document
Feedback(b, caller, rating, feedback, t) ==
    IF ~ValidRating(rating) THEN Outcome(400, "Validation failed", b)
    ELSE IF b.user # caller THEN Outcome(403, "Access denied", b)
    ELSE IF ~Completed(b) THEN Outcome(400, "Can only rate completed bookings", b)
    ELSE Outcome(200, "Feedback added successfully", addFeedback(b, rating, feedback, t))

\* PUT /bookings/:id/rate
Rate(b, caller, rating, comment) ==
    IF ~ValidRating(rating) THEN Outcome(400, "Validation failed", b)
    ELSE IF b.user # caller THEN Outcome(403, "Access denied", b)
    ELSE IF ~Completed(b) THEN Outcome(400, "Only completed bookings can be rated", b)
    ELSE Outcome(200, "Rating submitted successfully",
                 [b EXCEPT !.rating = rating, !.ratingComment = comment])

\* the appointment's date-time as the check-in handler builds it
CheckInAppointmentDateTime(b, off) ==
    ParseISODateTime(ISODateOf(b.appointmentDate), b.appointmentTime, off)

\* now < checkInStart || now > checkInEnd; a comparison with NaN is false
OutsideCheckInWindow(b, t, off) ==
    LET appointmentDateTime == CheckInAppointmentDateTime(b, off)
    IN IF appointmentDateTime = NaN THEN FALSE
       ELSE \/ t < appointmentDateTime - Minutes(CheckInEarlyMinutes)
            \/ t > appointmentDateTime + Minutes(CheckInLateMinutes)

\* POST /bookings/:id/checkin
CheckIn(b, caller, otp, t, off) ==
    IF b.user # caller THEN Outcome(403, "Access denied", b)
    ELSE IF OutsideCheckInWindow(b, t, off)
    THEN Outcome(400, "Check-in is only available 15 minutes before to 1 hour after your appointment time", b)
    ELSE IF b.checkedIn
    THEN Outcome(400, "You have already checked in for this appointment", b)
    ELSE Outcome(200, "Check-in successful! OTP sent to your email.",
                 [b EXCEPT !.checkedIn = TRUE,
                           !.checkInTime = t,
                           !.checkoutOTP = otp,
                           !.status = "in-progress",
                           !.checkOutEligibleTime = t + Minutes(CheckoutWaitMinutes)])

\* no wait after check-in
CheckOutEligibleAtCheckIn(b) == b.checkInTime

\* booking.checkOutEligibleTime || new Date(booking.checkInTime.getTime() + 20 * 60 * 1000)
CheckOutEligibleTime(b) ==
    IF b.checkOutEligibleTime # NoTime THEN b.checkOutEligibleTime
    ELSE b.checkInTime + Minutes(CheckoutWaitMinutes)

\* Math.floor in place of Math.ceil
MinutesLeftFloor(b, t) == (CheckOutEligibleTime(b) - t) \div TicksPerMinute

\* Math.ceil((checkOutEligibleTime - now) / (1000 * 60))
MinutesLeft(b, t) ==
    (CheckOutEligibleTime(b) - t + TicksPerMinute - 1) \div TicksPerMinute

\* POST /bookings/:id/user-checkout
UserCheckout(b, caller, t) ==
    IF b.user # caller THEN Outcome(403, "Access denied", b)
    ELSE IF ~b.checkedIn THEN Outcome(400, "You must check in first", b)
    ELSE IF b.checkedOut THEN Outcome(400, "You have already checked out", b)
    ELSE IF t < CheckOutEligibleTime(b)
    THEN [Outcome(400, "Please wait more minute(s) before checking out", b)
            EXCEPT !.data = MinutesLeft(b, t)]
    ELSE Outcome(200, "Successfully checked out! Your appointment is now complete.",
                 [b EXCEPT !.checkedOut = TRUE,
                           !.checkOutTime = t,
                           !.status = "completed",
                           !.checkoutOTP = NoOTP])

\* the checkout without its guard on checkedOut, and the OTP left in place
StaffCheckoutReplayable(b, otp, adminId, t) ==
    IF ~b.checkedIn THEN Outcome(400, "Patient has not checked in yet", b)
    ELSE IF b.checkoutOTP # otp
    THEN Outcome(400, "Invalid OTP. Please check the OTP sent to patient email.", b)
    ELSE Outcome(200, "Patient checked out successfully!",
                 [b EXCEPT !.checkedOut = TRUE,
                           !.checkOutTime = t,
                           !.status = "completed",
                           !.adminCheckout = adminId])

\* the checkout without its comparison of the OTP
StaffCheckoutAnyOTP(b, otp, adminId, t) ==
    IF ~b.checkedIn THEN Outcome(400, "Patient has not checked in yet", b)
    ELSE IF b.checkedOut THEN Outcome(400, "Patient has already been checked out", b)
    ELSE Outcome(200, "Patient checked out successfully!",
                 [b EXCEPT !.checkedOut = TRUE,
                           !.checkOutTime = t,
                           !.status = "completed",
                           !.adminCheckout = adminId,
                           !.checkoutOTP = NoOTP])

\* POST /bookings/:id/checkout
StaffCheckout(b, otp, adminId, t) ==
    IF ~b.checkedIn THEN Outcome(400, "Patient has not checked in yet", b)
    ELSE IF b.checkedOut THEN Outcome(400, "Patient has already been checked out", b)
    ELSE IF b.checkoutOTP # otp
    THEN Outcome(400, "Invalid OTP. Please check the OTP sent to patient email.", b)
    ELSE Outcome(200, "Patient checked out successfully!",
                 [b EXCEPT !.checkedOut = TRUE,
                           !.checkOutTime = t,
                           !.status = "completed",
                           !.adminCheckout = adminId,
                           !.checkoutOTP = NoOTP])

\* PATCH /bookings/admin/:id/status
AdminUpdateStatus(b, status, reason, t) ==
    IF status = "cancelled"
    THEN IF reason = ""
         THEN Outcome(400, "Cancellation reason is required", b)
         ELSE Outcome(200, "Booking cancelled successfully", cancelBooking(b, reason, t))
    ELSE IF status = "no-show" THEN Outcome(200, "Booking updated successfully", markAsNoShow(b, t))
    ELSE IF status = "completed" THEN Outcome(200, "Booking updated successfully", completeBooking(b))
    ELSE Outcome(200, "Booking updated successfully", [b EXCEPT !.status = status])

\* one booking of PATCH /bookings/admin/bulk-update
BulkUpdateOne(b, action, data, t) ==
    CASE action = "cancel" ->
            Outcome(200, "cancel successful",
                    cancelBooking(b, IF data.cancellationReason = "" THEN "Cancelled by admin"
                                     ELSE data.cancellationReason, t))
      [] action = "confirm" ->
            Outcome(200, "confirm successful", [b EXCEPT !.status = "confirmed"])
      [] action = "no-show" ->
            Outcome(200, "no-show successful", markAsNoShow(b, t))
      [] action = "reschedule" ->
            IF b.status \in {"completed", "cancelled", "no-show"}
            THEN Outcome(400, "Cannot reschedule appointments", b)
            ELSE IF RescheduleLimitReached(b)
            THEN Outcome(400, "Appointment can only be rescheduled once", b)
            ELSE IF data.appointmentDate # 0 /\ data.appointmentTime # <<>>
            THEN Outcome(200, "reschedule successful",
                         rescheduleBooking(b, data.appointmentDate, data.appointmentTime, t))
            ELSE Outcome(400, "Date and time required for reschedule", b)

----------------------------------------------------------------------------
(* Requests on stored bookings: Booking.findById(id), 404 when there is    *)
(* none, else the handler and its save                                     *)

Find(id) == id \in Stored

Save(id, out) ==
    /\ bookings' = [bookings EXCEPT ![id] = out.booking]
    /\ UNCHANGED <<nextId, now, tz>>
    /\ Counted
    /\ UNCHANGED <<inFlight, pharmacy, adminOTPs>>

NotFound ==
    /\ UNCHANGED <<bookings, nextId, now, tz>>
    /\ Counted
    /\ UNCHANGED <<inFlight, pharmacy, adminOTPs>>

\* the cancellation alone sends an e-mail
UpdateStatusRequest(id, caller, status, reason) ==
    /\ Serving
    /\ IF Find(id)
       THEN LET out == UpdateStatus(bookings[id], caller, status, reason, now)
            IN IF status = "cancelled"
               THEN \E delivered \in EmailOutcomes(out) : Save(id, Emailed(out, delivered).answer)
               ELSE Save(id, out)
       ELSE NotFound

RescheduleRequest(id, caller, newDate, newTime) ==
    /\ Serving
    /\ IF Find(id)
       THEN LET out == Reschedule(bookings[id], caller, newDate, newTime, now)
            IN \E delivered \in EmailOutcomes(out) : Save(id, Emailed(out, delivered).answer)
       ELSE NotFound

CancelRequest(id, caller) ==
    /\ Serving
    /\ IF Find(id)
       THEN LET out == Cancel(bookings[id], caller)
            IN \E delivered \in EmailOutcomes(out) : Save(id, Emailed(out, delivered).answer)
       ELSE NotFound

CheckInRequest(id, caller, otp) ==
    /\ Serving
    /\ IF Find(id)
       THEN LET out == CheckIn(bookings[id], caller, otp, now, tz)
            IN \E delivered \in EmailOutcomes(out) : Save(id, Emailed(out, delivered).answer)
       ELSE NotFound

UserCheckoutRequest(id, caller) ==
    /\ Serving
    /\ IF Find(id) THEN Save(id, UserCheckout(bookings[id], caller, now)) ELSE NotFound

StaffCheckoutRequest(id, otp, adminId) ==
    /\ Serving
    /\ IF Find(id) THEN Save(id, StaffCheckout(bookings[id], otp, adminId, now)) ELSE NotFound

FeedbackRequest(id, caller, rating, feedback) ==
    /\ Serving
    /\ IF Find(id) THEN Save(id, Feedback(bookings[id], caller, rating, feedback, now))
       ELSE NotFound

RateRequest(id, caller, rating, comment) ==
    /\ Serving
    /\ IF Find(id) THEN Save(id, Rate(bookings[id], caller, rating, comment)) ELSE NotFound

AdminUpdateStatusRequest(id, status, reason) ==
    /\ Serving
    /\ IF Find(id) THEN Save(id, AdminUpdateStatus(bookings[id], status, reason, now))
       ELSE NotFound

\* DELETE /bookings/:id
Delete(bs, id, caller) ==
    LET answer(code, message, after) == [code |-> code, message |-> message, bookings |-> after]
    IN IF id \notin DOMAIN bs THEN answer(404, "Booking not found", bs)
       ELSE IF bs[id].user # caller THEN answer(403, "Access denied", bs)
       ELSE IF bs[id].status # "cancelled"
       THEN answer(400, "Only cancelled appointments can be deleted", bs)
       ELSE answer(200, "Cancelled appointment deleted successfully",
                   [i \in DOMAIN bs \ {id} |-> bs[i]])

DeleteRequest(id, caller) ==
    /\ Serving
    /\ bookings' = Delete(bookings, id, caller).bookings
    /\ UNCHANGED <<nextId, now, tz>>
    /\ Counted
    /\ UNCHANGED <<inFlight, pharmacy, adminOTPs>>

\* DELETE /admin/customers/:id, as far as the bookings go; found is the
\* answer of User.findById, the users being kept outside this model
DeleteCustomer(bs, customerId, found) ==
    LET answer(code, message, after) == [code |-> code, message |-> message, bookings |-> after]
    IN IF ~found THEN answer(404, "Customer not found", bs)
       ELSE \* Booking.deleteMany({ user: id })
            answer(200, "Customer and all related data deleted successfully",
                   [i \in {j \in DOMAIN bs : bs[j].user # customerId} |-> bs[i]])

DeleteCustomerRequest(customerId, found) ==
    /\ Serving
    /\ bookings' = DeleteCustomer(bookings, customerId, found).bookings
    /\ UNCHANGED <<nextId, now, tz>>
    /\ Counted
    /\ UNCHANGED <<inFlight, pharmacy, adminOTPs>>

\* PATCH /bookings/admin/bulk-update: the bookings of the list, one after another
RECURSIVE BulkUpdate(_, _, _, _, _)
BulkUpdate(bs, ids, action, data, t) ==
    IF ids = <<>> THEN [bookings |-> bs, results |-> <<>>]
    ELSE LET id == Head(ids)
             found == id \in DOMAIN bs
             out == IF found THEN BulkUpdateOne(bs[id], action, data, t)
                    ELSE Outcome(404, "Booking not found", <<>>)
             rest == BulkUpdate(IF found THEN [bs EXCEPT ![id] = out.booking] ELSE bs,
                                Tail(ids), action, data, t)
         IN [bookings |-> rest.bookings,
             results |-> <<[bookingId |-> id, success |-> out.code = 200, message |-> out.message]>>
                         \o rest.results]

BulkUpdateRequest(ids, action, data) ==
    /\ Serving
    /\ bookings' = BulkUpdate(bookings, ids, action, data, now).bookings
    /\ UNCHANGED <<nextId, now, tz>>
    /\ Counted
    /\ UNCHANGED <<inFlight, pharmacy, adminOTPs>>

----------------------------------------------------------------------------
(* The no-show sweep: POST /bookings/mark-no-shows and the cron script *)

\* the filter without its test of the status
NoShowFilterAnyStatus(b, t) ==
    /\ b.appointmentDate < t - Minutes(NoShowCutoffMinutes)
    /\ b.checkedIn # TRUE

\* the date test alone
NoShowFilterOverdueOnly(b, t) == b.appointmentDate < t - Minutes(NoShowCutoffMinutes)

\* the filter of updateMany
NoShowFilter(b, t) ==
    /\ b.status = "confirmed"
    /\ b.appointmentDate < t - Minutes(NoShowCutoffMinutes)
    /\ b.checkedIn # TRUE

\* bookingSchema.statics.markNoShowAppointments
markNoShowAppointments(bs, t) ==
    [i \in DOMAIN bs |->
        IF NoShowFilter(bs[i], t)
        THEN [bs[i] EXCEPT !.status = "no-show", !.noShowMarkedAt = t]
        ELSE bs[i]]

\* updateMany's modifiedCount: the documents the update changed
ModifiedCount(before, after) == Cardinality({i \in DOMAIN before : after[i] # before[i]})

MarkNoShows ==
    /\ Serving
    /\ bookings' = markNoShowAppointments(bookings, now)
    /\ UNCHANGED <<nextId, now, tz>>
    /\ Counted
    /\ UNCHANGED <<inFlight, pharmacy, adminOTPs>>

----------------------------------------------------------------------------
(* GET /bookings/availability/:date *)

\* the statuses without 'in-progress'
OccupyingStatusesBeforeCheckIn == {"pending", "confirmed"}

\* status: { $in: ['pending', 'confirmed', 'in-progress'] }
OccupyingStatuses == {"pending", "confirmed", "in-progress"}

\* Booking.find of the day's bookings at the location, in _id order; the
\* upper end of the range is the last millisecond of the local day
ExistingBookings(bs, date, location, off) ==
    LET dayStart == StartOfLocalDay(ParseDateOnly(date), off)
        matches(i) == /\ i \in DOMAIN bs
                      /\ bs[i].appointmentDate >= dayStart
                      /\ bs[i].appointmentDate < dayStart + DayTicks
                      /\ bs[i].location = location
                      /\ bs[i].status \in OccupyingStatuses
    IN SelectSeq([i \in 1..MaxBookings |-> i], matches)

\* parseInt(slot.split(':')[0])
SlotHour(slot) == ToNumber(SubSeq(slot, 1, ColonAt(slot) - 1))

\* a slot counted as past from its own hour on, without the preparation hour
SlotDetailNoBuffer(bs, existing, slot, isToday, currentHour) ==
    LET isBooked == \E k \in 1..Len(existing) : bs[existing[k]].appointmentTime = slot
        isPastTime == isToday /\ SlotHour(slot) <= currentHour
    IN [time |-> slot, isAvailable |-> ~isBooked /\ ~isPastTime,
        isBooked |-> isBooked, isPastTime |-> isPastTime]

SlotDetail(bs, existing, slot, isToday, currentHour) ==
    LET isBooked == \E k \in 1..Len(existing) : bs[existing[k]].appointmentTime = slot
        isPastTime == isToday /\ SlotHour(slot) <= currentHour + 1
    IN [time |-> slot, isAvailable |-> ~isBooked /\ ~isPastTime,
        isBooked |-> isBooked, isPastTime |-> isPastTime]

DayAvailability(bs, date, location, t, off) ==
    LET appointmentDate == ParseDateOnly(date)
        existing == ExistingBookings(bs, date, location, off)
        isToday == LocalDateOf(StartOfLocalDay(appointmentDate, off), off) = LocalDateOf(t, off)
        slotDetails == [k \in 1..Len(TimeSlots) |->
                           SlotDetail(bs, existing, TimeSlots[k], isToday, LocalHourOf(t, off))]
        available(d) == d.isAvailable
        availableDetails == SelectSeq(slotDetails, available)
        availableSlots == [k \in 1..Len(availableDetails) |-> availableDetails[k].time]
    IN IF appointmentDate < StartOfLocalDay(t, off)
       THEN [code |-> 400, message |-> "Cannot check availability for past dates",
             availableSlots |-> <<>>, bookedSlots |-> <<>>, slotDetails |-> <<>>,
             fullyBooked |-> FALSE]
       ELSE [code |-> 200, message |-> "Available time slots retrieved successfully",
             availableSlots |-> availableSlots,
             bookedSlots |-> [k \in 1..Len(existing) |-> bs[existing[k]].appointmentTime],
             slotDetails |-> slotDetails,
             fullyBooked |-> Len(availableSlots) = 0]

\* the read changes nothing
DayAvailabilityRequest(date, location) ==
    /\ Serving
    /\ DayAvailability(bookings, date, location, now, tz).code \in {200, 400}
    /\ UNCHANGED <<bookings, nextId, now, tz>>
    /\ Counted
    /\ UNCHANGED <<inFlight, pharmacy, adminOTPs>>

\* the days of month 1 of the model's year, as day numbers: the month begins
\* yesterday and ends the day after tomorrow
MonthDays == (Today - 1)..(Tomorrow + 1)

\* the :month parameter: the month of the model and one outside 1..12
MonthInputs == {1, 13}

\* currentDate.getDate() of a day of the month
DayOfMonth(date) == date - (Today - 1) + 1

\* Booking.find of the month's bookings at the location, in _id order
MonthBookings(bs, location, off) ==
    LET startDate == LocalDateTime(Today - 1, 0, 0, off)
        endDate == LocalDateTime(Tomorrow + 2, 0, 0, off) - 1
        matches(i) == /\ i \in DOMAIN bs
                      /\ bs[i].appointmentDate >= startDate
                      /\ bs[i].appointmentDate <= endDate
                      /\ bs[i].location = location
                      /\ bs[i].status \in OccupyingStatuses
    IN SelectSeq([i \in 1..MaxBookings |-> i], matches)

\* the entry the month view computes for one day of the month
DayEntry(bs, monthBookings, date, t, off) ==
    LET currentDate == LocalDateTime(date, 0, 0, off)
        onDay(i) == DayOfMonth(LocalDateOf(bs[i].appointmentDate, off)) = DayOfMonth(date)
        dayBookings == SelectSeq(monthBookings, onDay)
        unbooked(slot) == \A k \in 1..Len(dayBookings) : bs[dayBookings[k]].appointmentTime # slot
        availableSlots == SelectSeq(TimeSlots, unbooked)
        fullyBooked == Len(availableSlots) = 0
    IN IF currentDate < StartOfLocalDay(t, off)
       THEN [isPast |-> TRUE, isAvailable |-> FALSE, availableSlots |-> 0,
             totalSlots |-> Len(TimeSlots), fullyBooked |-> FALSE]
       ELSE [isPast |-> FALSE, isAvailable |-> ~fullyBooked,
             availableSlots |-> Len(availableSlots), totalSlots |-> Len(TimeSlots),
             fullyBooked |-> fullyBooked, bookedSlots |-> Len(dayBookings)]

\* GET /availability/calendar/:year/:month: the entries are keyed by
\* currentDate.toISOString().split('T')[0], the UTC date of the local midnight
MonthAvailability(bs, monthNum, location, t, off) ==
    LET monthBookings == MonthBookings(bs, location, off)
        dateString(date) == ISODateOf(LocalDateTime(date, 0, 0, off))
        keys == { dateString(date) : date \in MonthDays }
        lastWith(key) == CHOOSE date \in MonthDays :
                            /\ dateString(date) = key
                            /\ \A other \in MonthDays : dateString(other) = key => other <= date
    IN IF monthNum < 1 \/ monthNum > 12
       THEN [code |-> 400, message |-> "Invalid year or month", availability |-> <<>>]
       ELSE [code |-> 200, message |-> "Monthly availability retrieved successfully",
             availability |-> [key \in keys |-> DayEntry(bs, monthBookings, lastWith(key), t, off)]]

\* the read changes nothing
MonthAvailabilityRequest(monthNum, location) ==
    /\ Serving
    /\ MonthAvailability(bookings, monthNum, location, now, tz).code \in {200, 400}
    /\ UNCHANGED <<bookings, nextId, now, tz>>
    /\ Counted
    /\ UNCHANGED <<inFlight, pharmacy, adminOTPs>>

----------------------------------------------------------------------------
(* Requests that interleave: a handler reads the booking with findById,    *)
(* runs its guards on the copy it read, and writes with booking.save();    *)
(* other requests are served between the read and the write.               *)

\* a second date, so that two reschedule requests can ask for different days
RaceRescheduleDates == {Tomorrow, Tomorrow + 1}

\* document.save() of a loaded document: an update that sets the paths the
\* handler changed on its copy, whatever the stored document holds by then
SaveModified(current, before, after) ==
    [f \in DOMAIN current |-> IF after[f] # before[f] THEN after[f] ELSE current[f]]

\* the read of a request and the guards that follow it: a refused request is
\* answered at once and holds nothing
Load(r, id, out) ==
    /\ loaded[r] = Idle
    /\ loaded' = IF out.code = 200
                 THEN [loaded EXCEPT ![r] = [kind |-> "save", id |-> id,
                                             before |-> bookings[id], after |-> out.booking]]
                 ELSE loaded
    /\ UNCHANGED <<clinic, now, pharmacy, adminOTPs>>

\* PATCH /:id/reschedule up to booking.rescheduleBooking's save
RescheduleLoad(r, id, caller, newDate, newTime) ==
    /\ Serving
    /\ Find(id)
    /\ Load(r, id, Reschedule(bookings[id], caller, newDate, newTime, now))

\* POST /:id/checkin up to booking.save()
CheckInLoad(r, id, caller, otp) ==
    /\ Serving
    /\ Find(id)
    /\ Load(r, id, CheckIn(bookings[id], caller, otp, now, tz))

\* the save of a request under way; it fails when the document is gone
SaveLoaded(r) ==
    /\ loaded[r] # Idle
    /\ bookings' = IF loaded[r].id \in Stored
                   THEN [bookings EXCEPT ![loaded[r].id] =
                            SaveModified(bookings[loaded[r].id], loaded[r].before, loaded[r].after)]
                   ELSE bookings
    /\ loaded' = [loaded EXCEPT ![r] = Idle]
    /\ Counted
    /\ UNCHANGED <<nextId, now, tz, pharmacy, adminOTPs>>

----------------------------------------------------------------------------
(* Medicine orders: POST /, PATCH /:orderId/status, PATCH /:orderId/cancel *)

Item(medicineId, quantity) == [medicineId |-> medicineId, quantity |-> quantity]

\* the medicines of an order request: none, one or two units of the medicine
\* on sale, a withdrawn medicine, an unknown one, and a quantity of zero
MedicineLists ==
    { <<>>, <<Item("m1", 1)>>, <<Item("m1", 2)>>, <<Item("m2", 1)>>,
      <<Item("m9", 1)>>, <<Item("m1", 0)>> }

\* an order request; complete stands for the presence of customerDetails,
\* deliveryAddress, paymentMethod and location
OrderRequests == [medicines : MedicineLists, complete : BOOLEAN]

\* the status of PATCH /:orderId/status: three of the valid ones and another
OrderStatusInputs == {"placed", "delivered", "cancelled", "lost"}

validStatuses ==
    {"placed", "confirmed", "preparing", "out_for_delivery", "delivered", "cancelled", "returned"}

\* the statuses in which the owner may cancel
Cancellable == {"placed", "confirmed", "preparing"}

OrderIds == 1..MaxOrders

\* medicineSchema.methods.isAvailable
isAvailable(medicine, stockQuantity, quantity) ==
    medicine.inStock /\ medicine.isActive /\ stockQuantity >= quantity

\* the loop that validates the medicines of a request: the status it answers,
\* 0 when every item passed
CheckMedicines(st, medicines) ==
    LET refused(k) == \/ medicines[k].medicineId \notin DOMAIN Medicines
                      \/ ~Medicines[medicines[k].medicineId].isActive
                      \/ ~isAvailable(Medicines[medicines[k].medicineId],
                                      st[medicines[k].medicineId], medicines[k].quantity)
    IN IF \E k \in 1..Len(medicines) : refused(k) THEN 400 ELSE 0

\* the checks of POST / up to order.save()
CheckOrder(st, req) ==
    IF Len(req.medicines) = 0 THEN 400
    ELSE IF ~req.complete THEN 400
    ELSE CheckMedicines(st, req.medicines)

\* the quantities of the schema: min 1
ValidQuantities(medicines) == \A k \in 1..Len(medicines) : medicines[k].quantity >= 1

\* Medicine.findByIdAndUpdate(item.medicineId, { $inc: { stockQuantity: by } })
\* for every item, in order
RECURSIVE IncStock(_, _, _)
IncStock(st, medicines, sign) ==
    IF medicines = <<>> THEN st
    ELSE LET item == Head(medicines)
         IN IncStock([st EXCEPT ![item.medicineId] = @ + sign * item.quantity],
                     Tail(medicines), sign)

\* POST /: the validation of the request, which reads the medicines
PlaceCheck(r, user, req) ==
    /\ placing[r] = Idle
    /\ Len(orders) + Cardinality({q \in Requests : placing[q] # Idle}) < MaxOrders
    /\ placing' = IF CheckOrder(stock, req) = 0
                  THEN [placing EXCEPT ![r] = [kind |-> "checked", userId |-> user,
                                               medicines |-> req.medicines]]
                  ELSE placing
    /\ UNCHANGED <<stock, orders, clinic, now, inFlight, adminOTPs>>

\* POST /: order.save(), refused by the validation of the schema
PlaceSave(r) ==
    /\ placing[r] # Idle
    /\ placing[r].kind = "checked"
    /\ IF ValidQuantities(placing[r].medicines)
       THEN /\ orders' = Append(orders, [userId |-> placing[r].userId,
                                         medicines |-> placing[r].medicines,
                                         orderStatus |-> "placed"])
            /\ placing' = [placing EXCEPT ![r] = [kind |-> "saved",
                                                  medicines |-> placing[r].medicines]]
       ELSE /\ placing' = [placing EXCEPT ![r] = Idle]
            /\ UNCHANGED orders
    /\ UNCHANGED <<stock, clinic, now, inFlight, adminOTPs>>

\* POST /: the stock updates that follow the save
PlaceDecrement(r) ==
    /\ placing[r] # Idle
    /\ placing[r].kind = "saved"
    /\ stock' = IncStock(stock, placing[r].medicines, 0 - 1)
    /\ placing' = [placing EXCEPT ![r] = Idle]
    /\ UNCHANGED <<orders, clinic, now, inFlight, adminOTPs>>

\* PATCH /:orderId/status: the answer and the order it saves
UpdateOrderStatus(order, caller, isAdmin, status) ==
    IF status \notin validStatuses THEN [code |-> 400, order |-> order]
    ELSE IF ~isAdmin /\ order.userId # caller THEN [code |-> 403, order |-> order]
    ELSE IF ~isAdmin /\ status = "cancelled" /\ order.orderStatus \notin Cancellable
    THEN [code |-> 400, order |-> order]
    ELSE [code |-> 200, order |-> [order EXCEPT !.orderStatus = status]]

UpdateOrderStatusRequest(orderId, caller, isAdmin, status) ==
    /\ IF orderId \in DOMAIN orders
       THEN orders' = [orders EXCEPT ![orderId] =
                          UpdateOrderStatus(orders[orderId], caller, isAdmin, status).order]
       ELSE UNCHANGED orders
    /\ UNCHANGED <<stock, placing, clinic, now, inFlight, adminOTPs>>

\* PATCH /:orderId/cancel: the answer, the order it saves and the stock
CancelOrder(st, order, caller) ==
    IF order.userId # caller THEN [code |-> 403, order |-> order, stock |-> st]
    ELSE IF order.orderStatus \notin Cancellable THEN [code |-> 400, order |-> order, stock |-> st]
    ELSE [code |-> 200, order |-> [order EXCEPT !.orderStatus = "cancelled"],
          stock |-> IncStock(st, order.medicines, 1)]

CancelOrderRequest(orderId, caller) ==
    /\ IF orderId \in DOMAIN orders
       THEN LET out == CancelOrder(stock, orders[orderId], caller)
            IN /\ \A m \in DOMAIN out.stock : out.stock[m] <= MaxStock
               /\ orders' = [orders EXCEPT ![orderId] = out.order]
               /\ stock' = out.stock
       ELSE UNCHANGED <<stock, orders>>
    /\ UNCHANGED <<placing, clinic, now, inFlight, adminOTPs>>

----------------------------------------------------------------------------
(* Admin sign-in: POST /admin/login, /admin/verify-otp, /admin/resend-otp; *)
(* adminOTPs is the Map of the process, keyed by the e-mail of the request *)

\* process.env.ADMIN_EMAILS, trimmed and in lower case
adminEmails == {"admin@zennara.in"}

\* the e-mail of a request: the admin's, the same in another case, a stranger's
EmailInputs == {"admin@zennara.in", "Admin@zennara.in", "guest@zennara.in"}

\* email.toLowerCase()
toLowerCase(email) == IF email = "Admin@zennara.in" THEN "admin@zennara.in" ELSE email

\* Math.floor(100000 + Math.random() * 900000).toString()
GeneratedAdminOTPs == {"301245", "918273"}

\* the otp of a verification: the generated ones and one of five characters
SuppliedAdminOTPs == GeneratedAdminOTPs \cup {"30124"}

\* Map.set and Map.delete
MapSet(map, key, value) == [k \in DOMAIN map \cup {key} |-> IF k = key THEN value ELSE map[k]]

MapDelete(map, key) == [k \in DOMAIN map \ {key} |-> map[k]]

AdminAnswer(code, message, map) == [code |-> code, message |-> message, adminOTPs |-> map]

\* one attempt more than the code allows
AttemptLimitExceeded(storedOTPData) == storedOTPData.attempts > MaxAttempts

\* storedOTPData.attempts >= 3
AttemptLimitReached(storedOTPData) == storedOTPData.attempts >= MaxAttempts

\* POST /login and POST /resend-otp store a new OTP in the same way
IssueOTP(map, email, otp, t, message) ==
    IF toLowerCase(email) \notin adminEmails
    THEN AdminAnswer(401, "Unauthorized access. Invalid admin email.", map)
    ELSE AdminAnswer(200, message,
                     MapSet(map, email, [otp |-> otp,
                                         expiresAt |-> t + Minutes(OTPLifetimeMinutes),
                                         attempts |-> 0]))

AdminLogin(map, email, otp, t) ==
    IssueOTP(map, email, otp, t, "OTP sent to admin email successfully")

ResendOTP(map, email, otp, t) ==
    IssueOTP(map, email, otp, t, "New OTP sent to admin email successfully")

\* POST /verify-otp
VerifyOTP(map, email, otp, t) ==
    IF Len(otp) # 6 THEN AdminAnswer(400, "Validation failed", map)
    ELSE IF toLowerCase(email) \notin adminEmails
    THEN AdminAnswer(401, "Unauthorized access. Invalid admin email.", map)
    ELSE IF email \notin DOMAIN map
    THEN AdminAnswer(400, "OTP not found. Please request a new OTP.", map)
    ELSE IF t > map[email].expiresAt
    THEN AdminAnswer(400, "OTP has expired. Please request a new OTP.", MapDelete(map, email))
    ELSE IF AttemptLimitReached(map[email])
    THEN AdminAnswer(400, "Too many failed attempts. Please request a new OTP.",
                     MapDelete(map, email))
    ELSE IF map[email].otp # otp
    THEN AdminAnswer(400, "Invalid OTP. Please try again.",
                     [map EXCEPT ![email].attempts = @ + 1])
    ELSE AdminAnswer(200, "Admin authentication successful", MapDelete(map, email))

\* the sign-in requests change the Map alone
AdminLoginRequest(email, otp) ==
    /\ adminOTPs' = AdminLogin(adminOTPs, email, otp, now).adminOTPs
    /\ UNCHANGED <<clinic, now, inFlight, pharmacy>>

ResendOTPRequest(email, otp) ==
    /\ adminOTPs' = ResendOTP(adminOTPs, email, otp, now).adminOTPs
    /\ UNCHANGED <<clinic, now, inFlight, pharmacy>>

VerifyOTPRequest(email, otp) ==
    /\ adminOTPs' = VerifyOTP(adminOTPs, email, otp, now).adminOTPs
    /\ UNCHANGED <<clinic, now, inFlight, pharmacy>>

\* the instants of the sign-in: a tick or the lifetime of an OTP later
LaterInstants(t, off) ==
    { later \in {t + 1, t + Minutes(OTPLifetimeMinutes)} :
        later <= StartOfModel(off) + Minutes(OTPHorizonMinutes) }

\* time passes during the sign-in
Elapse ==
    /\ \E later \in LaterInstants(now, tz) : now' = later
    /\ UNCHANGED <<clinic, inFlight, pharmacy, adminOTPs>>

----------------------------------------------------------------------------
(* The API *)

Next ==
    \/ Advance
    \/ \E req \in CreateRequests, n \in ReferenceNumbers : CreateBooking(req, n)
    \/ \E id \in BookingIds, caller \in Users, status \in OwnerStatusInputs, reason \in Reasons :
          UpdateStatusRequest(id, caller, status, reason)
    \/ \E id \in BookingIds, caller \in Users, d \in RescheduleDates, h \in RescheduleTimes :
          RescheduleRequest(id, caller, d, h)
    \/ \E id \in BookingIds, caller \in Users : CancelRequest(id, caller)
    \/ \E id \in BookingIds, caller \in Users, otp \in IssuedOTPs : CheckInRequest(id, caller, otp)
    \/ \E id \in BookingIds, caller \in Users : UserCheckoutRequest(id, caller)
    \/ \E id \in BookingIds, otp \in SuppliedOTPs, adminId \in AdminIds :
          StaffCheckoutRequest(id, otp, adminId)
    \/ \E id \in BookingIds, caller \in Users, rating \in RatingInputs, feedback \in Feedbacks :
          FeedbackRequest(id, caller, rating, feedback)
    \/ \E id \in BookingIds, caller \in Users, rating \in RatingInputs, comment \in RatingComments :
          RateRequest(id, caller, rating, comment)
    \/ \E id \in BookingIds, status \in AdminStatusInputs, reason \in Reasons :
          AdminUpdateStatusRequest(id, status, reason)
    \/ \E id \in BookingIds, caller \in Users : DeleteRequest(id, caller)
    \/ \E customerId \in Users, found \in BOOLEAN : DeleteCustomerRequest(customerId, found)
    \/ \E ids \in BulkIdLists, action \in BulkActions, data \in BulkData :
          BulkUpdateRequest(ids, action, data)
    \/ MarkNoShows
    \/ \E date \in QueryDates, location \in Locations : DayAvailabilityRequest(date, location)
    \/ \E monthNum \in MonthInputs, location \in Locations :
          MonthAvailabilityRequest(monthNum, location)

Spec == Init /\ [][Next]_vars

\* the booking routes with the reads and writes of reschedule and check-in
\* requests as separate steps
RaceNext ==
    \/ Advance
    \/ \E req \in CreateRequests, n \in ReferenceNumbers : CreateBooking(req, n)
    \/ \E r \in Requests, id \in BookingIds, caller \in Users,
          d \in RaceRescheduleDates, h \in RescheduleTimes : RescheduleLoad(r, id, caller, d, h)
    \/ \E r \in Requests, id \in BookingIds, caller \in Users, otp \in IssuedOTPs :
          CheckInLoad(r, id, caller, otp)
    \/ \E r \in Requests : SaveLoaded(r)
    \/ MarkNoShows

RaceSpec == Init /\ [][RaceNext]_vars

\* the medicine order routes; the steps of a placement interleave with
\* other requests
PharmacyNext ==
    \/ \E r \in Requests, user \in Users, req \in OrderRequests : PlaceCheck(r, user, req)
    \/ \E r \in Requests : PlaceSave(r)
    \/ \E r \in Requests : PlaceDecrement(r)
    \/ \E orderId \in OrderIds, caller \in Users, isAdmin \in BOOLEAN, status \in OrderStatusInputs :
          UpdateOrderStatusRequest(orderId, caller, isAdmin, status)
    \/ \E orderId \in OrderIds, caller \in Users : CancelOrderRequest(orderId, caller)

PharmacySpec == Init /\ [][PharmacyNext]_vars

\* the admin sign-in routes
AdminNext ==
    \/ Elapse
    \/ \E email \in EmailInputs, otp \in GeneratedAdminOTPs : AdminLoginRequest(email, otp)
    \/ \E email \in EmailInputs, otp \in GeneratedAdminOTPs : ResendOTPRequest(email, otp)
    \/ \E email \in EmailInputs, otp \in SuppliedAdminOTPs : VerifyOTPRequest(email, otp)

AdminSpec == Init /\ [][AdminNext]_vars

----------------------------------------------------------------------------
(* Properties *)

\* the instant an appointment is scheduled for: its calendar date, in the
\* zone of the server, at its time of day
ScheduledDateTime(b, off) ==
    LocalDateTime(LocalDateOf(b.appointmentDate, off),
                  HourOf(b.appointmentTime), MinuteOf(b.appointmentTime), off)

\* the fields a reschedule writes
RescheduleFields(b) ==
    <<b.appointmentDate, b.appointmentTime, b.status, b.rescheduledFrom, b.rescheduleCount>>

RescheduleCountAtMostOne ==
    \A id \in Stored : bookings[id].rescheduleCount \in {0, 1}

SecondRescheduleRejected ==
    \A id \in Stored :
        LET b == bookings[id] IN
        b.rescheduleCount = 1 =>
            /\ \A caller \in Users, d \in RescheduleDates, h \in RescheduleTimes :
                  LET out == Reschedule(b, caller, d, h, now) IN
                  /\ out.code # 200
                  /\ RescheduleFields(out.booking) = RescheduleFields(b)
                  /\ ( /\ caller = b.user
                       /\ ParseDateOnly(d) >= now
                       /\ b.status \notin {"completed", "cancelled"} )
                     => /\ out.code = 400
                        /\ out.message = "Appointment can only be rescheduled once"
            /\ \A data \in BulkData :
                  LET out == BulkUpdateOne(b, "reschedule", data, now) IN
                  /\ out.code # 200
                  /\ RescheduleFields(out.booking) = RescheduleFields(b)

OnceRescheduledKeepsSchedule ==
    \A id \in Stored :
        (bookings[id].rescheduleCount = 1 /\ id \in DOMAIN bookings') =>
            /\ bookings'[id].appointmentDate = bookings[id].appointmentDate
            /\ bookings'[id].appointmentTime = bookings[id].appointmentTime
            /\ bookings'[id].rescheduledFrom = bookings[id].rescheduledFrom
            /\ bookings'[id].rescheduleCount = bookings[id].rescheduleCount

\* C1: a booking is rescheduled at most once.  rescheduleCount is 0 or 1 in
\* every state; a reschedule request for a booking whose count is 1, from
\* the owner or in an admin's bulk update, is refused and leaves
\* appointmentDate, appointmentTime, status, rescheduledFrom and
\* rescheduleCount as they were, with the message 'Appointment can only be
\* rescheduled once' when the request passes the guards that come before the
\* limit; and no step changes the schedule of such a booking.
C1_RescheduledAtMostOnce ==
    /\ [](RescheduleCountAtMostOne /\ SecondRescheduleRejected)
    /\ [][OnceRescheduledKeepsSchedule]_vars

\* a booking rescheduled once, for which a second request reaches the limit
C1_Witness ==
    \E id \in Stored :
        /\ bookings[id].rescheduleCount = 1
        /\ bookings[id].rescheduledFrom # NoReschedule
        /\ Reschedule(bookings[id], bookings[id].user, Tomorrow, T1100, now).message
              = "Appointment can only be rescheduled once"

CheckedOutWasCheckedIn ==
    \A id \in Stored :
        bookings[id].checkedOut =>
            /\ bookings[id].checkedIn
            /\ bookings[id].checkInTime # NoTime
            /\ bookings[id].checkInTime <= bookings[id].checkOutTime

CheckoutStepAllowed ==
    \A id \in Stored :
        LET b == bookings[id] IN
        (id \in DOMAIN bookings' /\ ~b.checkedOut /\ bookings'[id].checkedOut) =>
            /\ b.checkedIn
            /\ \/ now >= b.checkInTime + Minutes(CheckoutWaitMinutes)
               \/ /\ b.checkoutOTP \in IssuedOTPs
                  /\ \E adminId \in AdminIds :
                        bookings'[id] = StaffCheckout(b, b.checkoutOTP, adminId, now).booking

\* C2: checkedOut becomes true only in a step that finds checkedIn true and
\* in which either 20 minutes have passed since checkInTime (self-checkout)
\* or the step is the staff checkout with the stored checkoutOTP; so a
\* checked-out booking was checked in before.
C2_CheckoutOnlyAfterCheckIn ==
    /\ []CheckedOutWasCheckedIn
    /\ [][CheckoutStepAllowed]_vars

\* staff checked a booking out with the OTP before the 20 minutes had passed
C2_Witness ==
    \E id \in Stored :
        /\ bookings[id].checkedOut
        /\ bookings[id].adminCheckout \in AdminIds
        /\ bookings[id].checkOutTime < bookings[id].checkInTime + Minutes(CheckoutWaitMinutes)

TerminalStatuses == {"completed", "cancelled", "no-show"}

\* C3: once the status of a booking is completed, cancelled or no-show, no
\* step changes it.
C3_TerminalStatusFinal ==
    [][\A id \in Stored :
          (bookings[id].status \in TerminalStatuses /\ id \in DOMAIN bookings')
              => bookings'[id].status = bookings[id].status]_vars

\* C4: the day availability reports no slot as available while a booking
\* with status confirmed or in-progress holds that location, date and time:
\* the slot is absent from availableSlots, listed in bookedSlots, and its
\* detail says booked and not available.
C4_OccupiedSlotNotAvailable ==
    \A id \in Stored :
        LET b == bookings[id]
            date == LocalDateOf(b.appointmentDate, tz)
            a == DayAvailability(bookings, date, b.location, now, tz)
        IN (b.status \in {"confirmed", "in-progress"} /\ a.code = 200) =>
              /\ \A k \in 1..Len(a.availableSlots) : a.availableSlots[k] # b.appointmentTime
              /\ \E k \in 1..Len(a.bookedSlots) : a.bookedSlots[k] = b.appointmentTime
              /\ \A k \in 1..Len(a.slotDetails) :
                    a.slotDetails[k].time = b.appointmentTime
                        => a.slotDetails[k].isBooked /\ ~a.slotDetails[k].isAvailable

\* a checked-in booking holds one of the day's slots, and the day's answer
\* lists the other slots as available
C4_Witness ==
    \E id \in Stored :
        LET b == bookings[id]
            a == DayAvailability(bookings, Tomorrow, b.location, now, tz)
        IN /\ b.status = "in-progress"
           /\ LocalDateOf(b.appointmentDate, tz) = Tomorrow
           /\ a.code = 200
           /\ \E k \in 1..Len(a.slotDetails) :
                 a.slotDetails[k].time = b.appointmentTime /\ a.slotDetails[k].isBooked
           /\ Len(a.availableSlots) > 0

FirstStaffCheckoutSucceeds ==
    \A id \in Stored :
        LET b == bookings[id] IN
        (b.checkedIn /\ ~b.checkedOut) =>
            /\ b.checkoutOTP \in IssuedOTPs
            /\ \A adminId \in AdminIds :
                  LET out == StaffCheckout(b, b.checkoutOTP, adminId, now) IN
                  /\ out.code = 200
                  /\ out.booking.checkedOut
                  /\ out.booking.status = "completed"
                  /\ out.booking.checkoutOTP = NoOTP

LaterStaffCheckoutRejected ==
    \A id \in Stored :
        LET b == bookings[id] IN
        b.checkedOut =>
            /\ b.checkoutOTP = NoOTP
            /\ \A otp \in SuppliedOTPs, adminId \in AdminIds :
                  LET out == StaffCheckout(b, otp, adminId, now) IN
                  out.code = 400 /\ out.booking = b

CheckedOutStays ==
    \A id \in Stored :
        (bookings[id].checkedOut /\ id \in DOMAIN bookings') =>
            /\ bookings'[id].checkedOut
            /\ bookings'[id].checkoutOTP = NoOTP
            /\ bookings'[id].checkOutTime = bookings[id].checkOutTime
            /\ bookings'[id].adminCheckout = bookings[id].adminCheckout

\* C5: of the staff checkout requests that carry the OTP issued at check-in,
\* the first succeeds (checkedOut true, status completed, OTP cleared) and
\* every later one is refused and changes nothing: a checked-out booking
\* stays checked out, with no OTP, and its checkout is not recorded again.
C5_OneStaffCheckout ==
    /\ [](FirstStaffCheckoutSucceeds /\ LaterStaffCheckoutRejected)
    /\ [][CheckedOutStays]_vars

\* staff checked a booking out, and the issued OTP is refused from then on
C5_Witness ==
    \E id \in Stored :
        /\ bookings[id].checkedOut
        /\ bookings[id].adminCheckout \in AdminIds
        /\ bookings[id].status = "completed"
        /\ \A otp \in IssuedOTPs, adminId \in AdminIds :
              StaffCheckout(bookings[id], otp, adminId, now).code = 400

WrongOTPRejected ==
    \A id \in Stored, otp \in SuppliedOTPs, adminId \in AdminIds :
        LET b == bookings[id]
            out == StaffCheckout(b, otp, adminId, now)
        IN otp # b.checkoutOTP => (out.code = 400 /\ out.booking = b)

StaffCheckoutHadStoredOTP ==
    \A id \in Stored :
        ( /\ id \in DOMAIN bookings'
          /\ ~bookings[id].checkedOut
          /\ bookings'[id].checkedOut
          /\ bookings'[id].adminCheckout # bookings[id].adminCheckout )
        => bookings[id].checkoutOTP \in IssuedOTPs

\* C6: a staff checkout request whose OTP differs from the stored
\* checkoutOTP, or that comes when no OTP is stored, is refused and leaves
\* the booking (checkedOut, status, checkOutTime, adminCheckout, checkoutOTP)
\* as it was; a staff checkout that succeeds found an issued OTP stored.
C6_WrongOTPRefused ==
    /\ []WrongOTPRejected
    /\ [][StaffCheckoutHadStoredOTP]_vars

\* a booking waits for its checkout, and a wrong OTP is refused
C6_Witness ==
    \E id \in Stored, adminId \in AdminIds :
        /\ bookings[id].checkedIn
        /\ ~bookings[id].checkedOut
        /\ bookings[id].checkoutOTP \in IssuedOTPs
        /\ StaffCheckout(bookings[id], "000000", adminId, now).message
              = "Invalid OTP. Please check the OTP sent to patient email."

\* C7: the owner's self-checkout of a checked-in booking earlier than 20
\* minutes after checkInTime is refused, with the minutes left rounded up,
\* and changes nothing; from 20 minutes on it succeeds.
C7_SelfCheckoutWaits ==
    \A id \in Stored :
        LET b == bookings[id]
            out == UserCheckout(b, b.user, now)
            eligible == b.checkInTime + Minutes(CheckoutWaitMinutes)
        IN (b.checkedIn /\ ~b.checkedOut) =>
              IF now < eligible
              THEN /\ out.code = 400
                   /\ out.booking = b
                   /\ (out.data - 1) * TicksPerMinute < eligible - now
                   /\ eligible - now <= out.data * TicksPerMinute
              ELSE /\ out.code = 200
                   /\ out.booking.checkedOut
                   /\ out.booking.status = "completed"
                   /\ out.booking.checkOutTime = now

\* the owner checked out exactly 20 minutes after checking in
C7_Witness ==
    \E id \in Stored :
        /\ bookings[id].checkedOut
        /\ bookings[id].adminCheckout = ""
        /\ bookings[id].checkOutTime = bookings[id].checkInTime + Minutes(CheckoutWaitMinutes)

\* the booking meets the sweep's conditions at t2 and did not at t1
NewlyEligible(b, t1, t2) ==
    /\ b.status = "confirmed"
    /\ b.checkedIn # TRUE
    /\ b.appointmentDate < t2 - Minutes(NoShowCutoffMinutes)
    /\ ~(b.appointmentDate < t1 - Minutes(NoShowCutoffMinutes))

\* C8: the sweep is idempotent.  After a sweep, a second sweep, at the same
\* instant or later with no booking newly eligible, modifies no booking.
C8_SweepIdempotent ==
    LET once == markNoShowAppointments(bookings, now) IN
    \A t \in ClockInstants(tz) :
        (t >= now /\ \A i \in DOMAIN once : ~NewlyEligible(once[i], now, t)) =>
            LET twice == markNoShowAppointments(once, t) IN
            /\ ModifiedCount(once, twice) = 0
            /\ twice = once

\* a sweep has marked a booking, time has passed, and a sweep now modifies nothing
C8_Witness ==
    \E id \in Stored :
        /\ bookings[id].status = "no-show"
        /\ bookings[id].noShowMarkedAt # NoTime
        /\ bookings[id].noShowMarkedAt < now
        /\ bookings[id].appointmentDate < bookings[id].noShowMarkedAt - Minutes(NoShowCutoffMinutes)
        /\ ModifiedCount(bookings, markNoShowAppointments(bookings, now)) = 0

\* C9: the sweep changes exactly the bookings with status confirmed, not
\* checked in, whose appointment time is more than 30 minutes in the past:
\* it sets their status to no-show and stamps noShowMarkedAt, and leaves
\* every other booking and every other field as it was.
C9_SweepMarksExactlyTheOverdue ==
    LET after == markNoShowAppointments(bookings, now) IN
    \A id \in Stored :
        LET b == bookings[id]
            overdue == /\ b.status = "confirmed"
                       /\ b.checkedIn # TRUE
                       /\ ScheduledDateTime(b, tz) < now - Minutes(NoShowCutoffMinutes)
        IN after[id] = IF overdue
                       THEN [b EXCEPT !.status = "no-show", !.noShowMarkedAt = now]
                       ELSE b

\* C10: a check-in succeeds only from 15 minutes before the appointment's
\* date-time to 60 minutes after it, both ends included, and only when the
\* booking is not checked in yet; any other request is refused and leaves
\* the booking as it was.
C10_CheckInOnlyInsideWindow ==
    \A id \in Stored, otp \in IssuedOTPs :
        LET b == bookings[id]
            out == CheckIn(b, b.user, otp, now, tz)
            appointmentDateTime == ScheduledDateTime(b, tz)
            inWindow == /\ now >= appointmentDateTime - Minutes(CheckInEarlyMinutes)
                        /\ now <= appointmentDateTime + Minutes(CheckInLateMinutes)
        IN IF inWindow /\ ~b.checkedIn
           THEN out.code = 200 /\ out.booking.checkedIn /\ out.booking.checkInTime = now
           ELSE out.code = 400 /\ out.booking = b

\* C11: after a reschedule the booking holds its new slot: the day
\* availability of the booking's new date and location lists the new time in
\* bookedSlots, not in availableSlots, and its slot detail says booked and
\* not available.
C11_RescheduledSlotNotAvailable ==
    \A id \in Stored :
        LET b == bookings[id]
            date == LocalDateOf(b.appointmentDate, tz)
            a == DayAvailability(bookings, date, b.location, now, tz)
        IN (b.status = "rescheduled" /\ b.rescheduleCount = 1 /\ a.code = 200) =>
              /\ \A k \in 1..Len(a.availableSlots) : a.availableSlots[k] # b.appointmentTime
              /\ \E k \in 1..Len(a.bookedSlots) : a.bookedSlots[k] = b.appointmentTime
              /\ \A k \in 1..Len(a.slotDetails) :
                    a.slotDetails[k].time = b.appointmentTime
                        => a.slotDetails[k].isBooked /\ ~a.slotDetails[k].isAvailable

\* the answers of the create handler to the requests it must refuse
CreateGuardsRefuse ==
    \A req \in CreateRequests, n \in ReferenceNumbers :
        LET out == Create(bookings, nextId, req, n, now, tz)
            offered == /\ req.treatmentId \in DOMAIN Treatments
                       /\ Treatments[req.treatmentId].isActive
                       /\ req.location \in Treatments[req.treatmentId].availableLocations
            clinicDateTime == LocalDateTime(req.appointmentDate, HourOf(req.appointmentTime),
                                            MinuteOf(req.appointmentTime), KolkataOffsetMinutes)
        IN /\ (~offered \/ clinicDateTime <= now) =>
                 /\ out.code \in {400, 404}
                 /\ out.bookings = bookings
           /\ out.code = 201 =>
                 /\ DOMAIN out.bookings = Stored \cup {nextId}
                 /\ \A id \in Stored : out.bookings[id] = bookings[id]

\* a step that stores a new booking
CreatedAsRequested ==
    \A id \in DOMAIN bookings' \ Stored :
        LET b == bookings'[id] IN
        /\ b.treatment \in DOMAIN Treatments
        /\ Treatments[b.treatment].isActive
        /\ b.location \in Treatments[b.treatment].availableLocations
        /\ ScheduledDateTime(b, KolkataOffsetMinutes) > now
        /\ b.status = "confirmed"
        /\ b.checkedIn = FALSE
        /\ b.checkedOut = FALSE
        /\ b.rescheduleCount = 0

\* C12: a booking is created only for a treatment that exists, is active and
\* is offered at the requested location, and for a date and time strictly
\* later than the present clinic-local time: a request that fails one of
\* these, the present instant included, is refused and stores nothing.  A
\* created booking starts with status confirmed, checkedIn false, checkedOut
\* false and rescheduleCount 0.
C12_CreateGuards ==
    /\ []CreateGuardsRefuse
    /\ [][CreatedAsRequested]_vars

\* a booking as the create handler stored it, at an instant for which a
\* request naming that very instant is refused
C12_Witness ==
    /\ \E id \in Stored, req \in CreateRequests :
          bookings[id] = NewBooking(req, AppointmentDateTime(req, tz), bookings[id].bookingReference)
    /\ \E req \in CreateRequests, n \in ReferenceNumbers :
          /\ AppointmentDateTime(req, tz) = now
          /\ Create(bookings, nextId, req, n, now, tz).message
                = "Appointment date and time must be in the future"

\* C13: a reschedule succeeds only when the new date and time are strictly
\* later than the present moment: every step that reschedules a booking,
\* from the owner's request or an admin's bulk update, leaves it scheduled
\* for an instant after now.
C13_RescheduleOnlyToFuture ==
    [][\A id \in Stored :
          ( /\ id \in DOMAIN bookings'
            /\ bookings'[id].rescheduleCount = bookings[id].rescheduleCount + 1 )
          => ScheduledDateTime(bookings'[id], tz) > now]_vars

\* C14: the owner's cancellation is applied only to a booking whose status
\* is confirmed or pending: on any other status both owner routes, PUT
\* /:id/cancel and PATCH /:id/status with 'cancelled', refuse the request and
\* leave the booking as it was.
C14_CancelOnlyConfirmedOrPending ==
    \A id \in Stored, reason \in Reasons :
        LET b == bookings[id]
            put == Cancel(b, b.user)
            patch == UpdateStatus(b, b.user, "cancelled", reason, now)
        IN b.status \notin {"confirmed", "pending"} =>
              /\ put.code # 200
              /\ put.booking = b
              /\ patch.code # 200
              /\ patch.booking = b

\* C15: a booking cancelled by an owner's cancel request carries a reason
\* and the time of the cancellation; a cancel request without a reason is
\* refused and changes nothing, on both owner routes.
C15_OwnerCancelCarriesReason ==
    \A id \in Stored, reason \in Reasons :
        LET b == bookings[id]
            put == Cancel(b, b.user)
            patch == UpdateStatus(b, b.user, "cancelled", reason, now)
            recorded(out) == out.code = 200 =>
                                /\ out.booking.status = "cancelled"
                                /\ out.booking.cancellationReason # ""
                                /\ out.booking.cancelledAt # NoTime
        IN /\ recorded(put)
           /\ recorded(patch)
           /\ reason = "" => (patch.code = 400 /\ patch.booking = b)

ReferencesUnique ==
    \A i, j \in Stored :
        i # j => bookings[i].bookingReference # bookings[j].bookingReference

UsedReferenceRefused ==
    \A req \in CreateRequests, n \in ReferenceNumbers :
        LET out == Create(bookings, nextId, req, n, now, tz) IN
        (\E i \in Stored : bookings[i].bookingReference = <<LocalDateOf(now, tz), n>>) =>
            /\ out.code # 201
            /\ out.bookings = bookings

ReferenceKept ==
    \A id \in Stored :
        id \in DOMAIN bookings' => bookings'[id].bookingReference = bookings[id].bookingReference

\* C16: no two stored bookings have the same bookingReference; a create
\* request whose reference is held by a stored booking stores no booking;
\* and no step changes the reference of a stored booking.
C16_ReferenceUnique ==
    /\ [](ReferencesUnique /\ UsedReferenceRefused)
    /\ [][ReferenceKept]_vars

\* two bookings are stored, and a create request that draws the number of
\* one of them on the same day is answered with an error
C16_Witness ==
    /\ \E i, j \in Stored : i # j
    /\ \E id \in Stored, req \in CreateRequests :
          /\ bookings[id].bookingReference[1] = LocalDateOf(now, tz)
          /\ Create(bookings, nextId, req, bookings[id].bookingReference[2], now, tz).code = 500

\* the fields a rating must leave alone
KeptByRating(b) ==
    <<b.status, b.checkedIn, b.checkedOut, b.rescheduleCount, b.appointmentDate, b.appointmentTime>>

\* the fields a rating writes
RatingFields(b) == <<b.rating, b.ratingComment, b.feedback, b.feedbackDate>>

RatingHandlers ==
    \A id \in Stored, rating \in RatingInputs :
        LET b == bookings[id]
            accepted(out) == /\ out.code = 200
                             /\ out.booking.rating = rating
                             /\ out.booking.status = "completed"
                             /\ KeptByRating(out.booking) = KeptByRating(b)
            refused(out) == out.code = 400 /\ out.booking = b
            answers == { Rate(b, b.user, rating, comment) : comment \in RatingComments }
                       \cup { Feedback(b, b.user, rating, feedback, now) : feedback \in Feedbacks }
        IN \A out \in answers :
              IF b.status = "completed" /\ rating \in 1..5 THEN accepted(out) ELSE refused(out)

RatingStep ==
    \A id \in Stored :
        (id \in DOMAIN bookings' /\ RatingFields(bookings'[id]) # RatingFields(bookings[id])) =>
            /\ bookings[id].status = "completed"
            /\ bookings'[id].rating \in 1..5
            /\ KeptByRating(bookings'[id]) = KeptByRating(bookings[id])

\* C19: a rating or feedback is accepted only for a booking whose status is
\* completed, with a rating from 1 to 5; it leaves the status completed and
\* checkedIn, checkedOut, rescheduleCount, appointmentDate and
\* appointmentTime as they were.  On any other status the request is refused
\* and the booking is unchanged.
C19_RatingOnlyWhenCompleted ==
    /\ []RatingHandlers
    /\ [][RatingStep]_vars

\* a completed booking that carries a rating
C19_Witness ==
    \E id \in Stored :
        /\ bookings[id].status = "completed"
        /\ bookings[id].rating = 5
        /\ Rate(bookings[id], bookings[id].user, 5, "on time").code = 200

\* C20: a booking leaves the store only through a delete request of its
\* owner made while its status is cancelled: every step that removes a
\* booking finds it cancelled and is that delete, and a delete request on a
\* booking that is not cancelled is refused and removes nothing.
C20_RemovedOnlyWhenCancelled ==
    [][/\ \A id \in Stored \ DOMAIN bookings' :
             /\ bookings[id].status = "cancelled"
             /\ bookings' = Delete(bookings, id, bookings[id].user).bookings
       /\ \A id \in Stored, caller \in Users :
             bookings[id].status # "cancelled" =>
                 /\ Delete(bookings, id, caller).code \in {400, 403}
                 /\ Delete(bookings, id, caller).bookings = bookings]_vars

\* the dispatch changes nothing of the answer out of a handler on a booking
SameWithOrWithoutEmail(out) ==
    LET failed == Emailed(out, FALSE).answer
        sent == Emailed(out, TRUE).answer
    IN /\ failed = sent
       /\ failed.booking = out.booking
       /\ out.code = 200 => failed.code = 200

\* the answers of the create handler, in the present state
CreateAnswers ==
    { Create(bookings, nextId, req, n, now, tz) : req \in CreateRequests, n \in ReferenceNumbers }

Unchanged(out, b) == out.code # 200 => out.booking = b

Denied(out, b) == out.code = 403 /\ out.booking = b

\* C21: a request on a booking from an authenticated user who does not own
\* it is answered 403 and leaves the booking as it was, whatever the state
\* of the booking: check-in, self-checkout, cancel, the owner's status
\* update, reschedule, rating, feedback and delete, for every request that
\* passes the route's validators.
C21_NotOwnerDenied ==
    \A id \in Stored, caller \in Users :
        LET b == bookings[id] IN
        caller # b.user =>
            /\ \A otp \in IssuedOTPs : Denied(CheckIn(b, caller, otp, now, tz), b)
            /\ Denied(UserCheckout(b, caller, now), b)
            /\ Denied(Cancel(b, caller), b)
            /\ \A status \in OwnerStatusInputs, reason \in Reasons :
                  Denied(UpdateStatus(b, caller, status, reason, now), b)
            /\ \A d \in RescheduleDates, h \in RescheduleTimes :
                  Denied(Reschedule(b, caller, d, h, now), b)
            /\ \A rating \in RatingInputs \cap (1..5) :
                  /\ \A comment \in RatingComments : Denied(Rate(b, caller, rating, comment), b)
                  /\ \A feedback \in Feedbacks : Denied(Feedback(b, caller, rating, feedback, now), b)
            /\ Delete(bookings, id, caller).code = 403
            /\ Delete(bookings, id, caller).bookings = bookings

\* a cancelled booking, whose state refuses the owner's cancel and
\* reschedule with 400, while another user is answered 403
C21_Witness ==
    \E id \in Stored, caller \in Users :
        LET b == bookings[id] IN
        /\ caller # b.user
        /\ b.status = "cancelled"
        /\ Cancel(b, b.user).code = 400
        /\ Cancel(b, caller).code = 403
        /\ Reschedule(b, b.user, Tomorrow, T1100, now).code = 400
        /\ Reschedule(b, caller, Tomorrow, T1100, now).code = 403

\* C22: the sweep marks an appointment as no-show only when its check-in
\* window is over: a booking the sweep marks now is one whose appointment
\* time lies more than an hour back.
C22_NoShowOnlyAfterCheckInWindow ==
    LET after == markNoShowAppointments(bookings, now) IN
    \A id \in Stored :
        (after[id].status = "no-show" /\ bookings[id].status # "no-show") =>
            now > ScheduledDateTime(bookings[id], tz) + Minutes(CheckInLateMinutes)

\* a stored booking holds the slot at the location on the date
HeldSlot(date, location, slot) ==
    \E id \in Stored :
        /\ bookings[id].location = location
        /\ LocalDateOf(bookings[id].appointmentDate, tz) = date
        /\ bookings[id].status \in {"pending", "confirmed", "in-progress"}
        /\ bookings[id].appointmentTime = slot

\* the slot of that hour has passed for a query of the date made now
PastSlot(date, hour) == date = LocalDateOf(now, tz) /\ hour <= LocalHourOf(now, tz) + 1

\* C23: the day view answers, for each of the ten slots 10:00 to 19:00:
\* isPastTime exactly when the queried date is today and the slot hour is at
\* most the current hour plus one; isBooked exactly when a pending, confirmed
\* or in-progress booking of that location and date has that time;
\* isAvailable exactly when neither; availableSlots lists exactly the
\* available slots, and fullyBooked says that there is none.
C23_DayViewSlots ==
    \A date \in QueryDates, location \in Locations :
        LET a == DayAvailability(bookings, date, location, now, tz)
            free(slot) == /\ ~HeldSlot(date, location, slot)
                          /\ ~PastSlot(date, FirstSlotHour + (CHOOSE k \in DOMAIN TimeSlots : TimeSlots[k] = slot) - 1)
        IN a.code = 200 =>
            /\ Len(a.slotDetails) = LastSlotHour - FirstSlotHour + 1
            /\ \A k \in DOMAIN TimeSlots :
                  LET d == a.slotDetails[k] IN
                  /\ d.time = TimeSlots[k]
                  /\ d.isPastTime <=> PastSlot(date, FirstSlotHour + k - 1)
                  /\ d.isBooked <=> HeldSlot(date, location, TimeSlots[k])
                  /\ d.isAvailable <=> (~d.isBooked /\ ~d.isPastTime)
            /\ a.availableSlots = SelectSeq(TimeSlots, free)
            /\ a.fullyBooked <=> a.availableSlots = <<>>

\* a query for today in which one slot is booked and past, one is past and
\* free, and the later ones are available
C23_Witness ==
    \E location \in Locations :
        LET date == LocalDateOf(now, tz)
            a == DayAvailability(bookings, date, location, now, tz)
        IN /\ date \in QueryDates
           /\ a.code = 200
           /\ a.slotDetails[1].isBooked /\ a.slotDetails[1].isPastTime
           /\ ~a.slotDetails[2].isBooked /\ a.slotDetails[2].isPastTime
           /\ a.slotDetails[3].isAvailable
           /\ Len(a.availableSlots) = Len(TimeSlots) - 2
           /\ ~a.fullyBooked

\* C27: at most one booking with status pending, confirmed or in-progress
\* holds a given location, date and appointment time.
C27_OneBookingPerSlot ==
    \A i, j \in Stored :
        ( /\ bookings[i].status \in {"pending", "confirmed", "in-progress"}
          /\ bookings[j].status \in {"pending", "confirmed", "in-progress"}
          /\ bookings[i].location = bookings[j].location
          /\ LocalDateOf(bookings[i].appointmentDate, tz) = LocalDateOf(bookings[j].appointmentDate, tz)
          /\ bookings[i].appointmentTime = bookings[j].appointmentTime ) => i = j

\* C24: for every day of the month after today, the month view and the day
\* view agree: the availableSlots count of the month view's entry for the
\* date is the number of slots the day view lists as available for that date
\* and location, and the two report the same fullyBooked.
C24_MonthViewAgreesWithDayView ==
    \A location \in Locations, date \in MonthDays :
        LET m == MonthAvailability(bookings, 1, location, now, tz)
            a == DayAvailability(bookings, date, location, now, tz)
        IN (date > LocalDateOf(now, tz) /\ date \in DOMAIN m.availability) =>
              /\ a.code = 200
              /\ m.availability[date].availableSlots = Len(a.availableSlots)
              /\ m.availability[date].fullyBooked = a.fullyBooked

\* C25: an appointment is rescheduled at most once even when reschedule
\* requests interleave: once a reschedule has been saved, no step changes
\* the booking's appointmentDate or appointmentTime again.
C25_AtMostOneRescheduleSucceeds ==
    [][\A id \in Stored :
          (id \in DOMAIN bookings' /\ bookings[id].rescheduledFrom # NoReschedule) =>
              /\ bookings'[id].appointmentDate = bookings[id].appointmentDate
              /\ bookings'[id].appointmentTime = bookings[id].appointmentTime]_vars

\* C26: a sweep that runs after a check-in was written leaves the booking as
\* it is, checked in and in progress; and in no interleaving of check-ins and
\* sweeps is a booking both checked in and marked no-show.
C26_SweepSparesCheckedIn ==
    \A id \in Stored :
        bookings[id].checkedIn =>
            /\ bookings[id].status # "no-show"
            /\ markNoShowAppointments(bookings, now)[id] = bookings[id]
            /\ bookings[id].rescheduleCount = 0 => bookings[id].status = "in-progress"

\* the sweep marked the booking between the read and the write of a check-in,
\* and a later sweep finds it overdue and checked in
C26_Witness ==
    \E id \in Stored :
        /\ bookings[id].checkedIn
        /\ bookings[id].status = "in-progress"
        /\ bookings[id].noShowMarkedAt # NoTime
        /\ bookings[id].checkInTime < bookings[id].noShowMarkedAt
        /\ NoShowFilterOverdueOnly(bookings[id], now)

\* C28: the stockQuantity of a medicine is never negative, whatever orders
\* are placed and however their steps interleave.
C28_StockNeverNegative == \A m \in DOMAIN stock : stock[m] >= 0

\* the units of medicine m in the orders that are not cancelled
RECURSIVE UnitsOf(_, _)
UnitsOf(medicines, m) ==
    IF medicines = <<>> THEN 0
    ELSE (IF Head(medicines).medicineId = m THEN Head(medicines).quantity ELSE 0)
         + UnitsOf(Tail(medicines), m)

RECURSIVE UnitsOrdered(_, _)
UnitsOrdered(os, m) ==
    IF os = <<>> THEN 0
    ELSE (IF Head(os).orderStatus # "cancelled" THEN UnitsOf(Head(os).medicines, m) ELSE 0)
         + UnitsOrdered(Tail(os), m)

\* C29: when no placement is under way, the stockQuantity of every medicine
\* is its initial stock less the units of it in the orders that are not
\* cancelled: a cancellation gives the units of the order back exactly once.
C29_StockMatchesOpenOrders ==
    (\A r \in Requests : placing[r] = Idle) =>
        \A m \in DOMAIN stock : stock[m] = InitialStock - UnitsOrdered(orders, m)

\* a verification now or later, with any code, of what a successful
\* verification leaves behind is refused
Consumed(map, email) ==
    \A otp \in SuppliedAdminOTPs, later \in {now} \cup LaterInstants(now, tz) :
        VerifyOTP(map, email, otp, later).code # 200

\* what the stored OTPs allow at a reachable state
StoredOTPsGuarded ==
    \A email \in DOMAIN adminOTPs, otp \in SuppliedAdminOTPs :
        LET storedOTPData == adminOTPs[email]
            out == VerifyOTP(adminOTPs, email, otp, now)
        IN /\ storedOTPData.attempts \in 0..MaxAttempts
           /\ now > storedOTPData.expiresAt => out.code # 200
           /\ storedOTPData.attempts >= MaxAttempts => out.code # 200
           /\ out.code = 200 =>
                 /\ otp = storedOTPData.otp
                 /\ email \notin DOMAIN out.adminOTPs
                 /\ Consumed(out.adminOTPs, email)

\* a new OTP starts with no failed attempt and the full lifetime
NewOTPStartsAfresh ==
    \A email \in EmailInputs, otp \in GeneratedAdminOTPs :
        LET issued == {AdminLogin(adminOTPs, email, otp, now), ResendOTP(adminOTPs, email, otp, now)}
        IN \A out \in issued :
              out.code = 200 =>
                  /\ out.adminOTPs[email].attempts = 0
                  /\ VerifyOTP(out.adminOTPs, email, otp, now).code = 200

\* the attempts of a stored OTP change by a failed verification, which adds
\* one and keeps the OTP and its expiry, or by the request of a new OTP
AttemptsStep ==
    \A email \in DOMAIN adminOTPs :
        (email \in DOMAIN adminOTPs' /\ adminOTPs'[email] # adminOTPs[email]) =>
            \/ adminOTPs'[email] = [adminOTPs[email] EXCEPT !.attempts = @ + 1]
            \/ /\ adminOTPs'[email].attempts = 0
               /\ adminOTPs'[email].expiresAt = now + Minutes(OTPLifetimeMinutes)

\* C30: an admin OTP issued by login or resend is verified at most once; an
\* expired OTP is never verified; and once three verifications of the
\* current OTP have failed, no verification succeeds, even with the right
\* code, until a new OTP is requested, which sets the attempts to 0.
C30_AdminOTPGuards ==
    /\ [](StoredOTPsGuarded /\ NewOTPStartsAfresh)
    /\ [][AttemptsStep]_vars

\* three verifications failed: the right code is refused while the OTP has
\* not expired
C30_Witness ==
    \E email \in DOMAIN adminOTPs :
        /\ adminOTPs[email].attempts = MaxAttempts
        /\ now <= adminOTPs[email].expiresAt
        /\ VerifyOTP(adminOTPs, email, adminOTPs[email].otp, now).message
              = "Too many failed attempts. Please request a new OTP."

====
